---- MODULE Spec2Model ----
(***************************************************************************)
(* BaseSpectralConv (keras_addon/layers/fno/base_spectral_conv.py): the    *)
(* spectral convolution layer of the repository, as a state machine.       *)
(*                                                                         *)
(* One layer instance is followed through construction, build, call, the   *)
(* manual backward function, compute_output_shape, get_config and          *)
(* from_config.  Tensors are records [shape, val]: shape is the tuple of   *)
(* extents and val maps every 0-based index tuple to an integer.           *)
(*                                                                         *)
(* Four specifications share the actions and differ in the operations      *)
(* they follow and in the sets the inputs are drawn from:                  *)
(*   Spec        construction, build, call, backprop on every small shape  *)
(*               of rank 1..3, coefficient values from {0};                *)
(*   SpecConfig  construction, build, compute_output_shape, get_config,    *)
(*               from_config;                                              *)
(*   SpecMix     construction, build, call, backprop on tensors of at most *)
(*               MixMaxElems elements with values from {0, 1}.             *)
(*   SpecShift   construction and rfft_shift on tensors that hold at every  *)
(*               index the index itself.                                   *)
(***************************************************************************)
EXTENDS Integers, Sequences, FiniteSets, TLC

VARIABLES backend_name, layer, n_weights, n_builds, fwd, config, ret, err, last_op

vars == <<backend_name, layer, n_weights, n_builds, fwd, config, ret, err, last_op>>

(***************************************************************************)
(* Bounds of the model.                                                    *)
(***************************************************************************)
MaxRank == 3
MinExtent == 2
MaxExtent == 3
MaxMode == 3
MaxFilters == 1
MaxChannels == 2
MaxBatch == 1
MaxCalls == 1
MaxBuilds == 2
MixMaxElems == 2

(***************************************************************************)
(* Tensors.                                                                *)
(***************************************************************************)
NoTensor == [shape |-> <<>>, val |-> <<>>]

MaxOf(s) == IF s = {} THEN 0 ELSE CHOOSE m \in s : \A e \in s : e <= m

SeqMax(sq) == MaxOf({sq[k] : k \in 1..Len(sq)})

RECURSIVE Prod(_)
Prod(sq) == IF Len(sq) = 0 THEN 1 ELSE Head(sq) * Prod(Tail(sq))

\* every 0-based index tuple of a tensor of the given shape
RECURSIVE Idx(_)
Idx(shape) ==
    IF Len(shape) = 0 THEN {<<>>}
    ELSE {<<i>> \o r : i \in 0..(Head(shape) - 1), r \in Idx(Tail(shape))}

Tensors(shape, V) == {[shape |-> shape, val |-> v] : v \in [Idx(shape) -> V]}

RECURSIVE SumOver(_, _)
SumOver(S, f) ==
    IF S = {} THEN 0
    ELSE LET e == CHOOSE e \in S : TRUE IN f[e] + SumOver(S \ {e}, f)

\* Python's tuple comparison a < b on pairs
TupleLess(a, b) == a[1] < b[1] \/ (a[1] = b[1] /\ a[2] < b[2])

(***************************************************************************)
(* The layer object and the exceptions an operation can raise.             *)
(***************************************************************************)
NoWeight == [id |-> 0, name |-> "", shape |-> <<>>, val |-> <<>>]

NoError == [type |-> "", msg |-> ""]

NoLayer ==
    [constructed |-> FALSE, rank |-> 0, filters |-> 0, modes |-> <<>>,
     data_format |-> "", use_bias |-> FALSE, built |-> FALSE, attrs |-> {},
     transpose_axes |-> <<>>, inverse_transpose_axes |-> <<>>,
     pad_width |-> <<>>, input_channel |-> 0, feature_dims |-> <<>>,
     mode_truncation_slice |-> <<>>, einsum_op_forward |-> "",
     real_kernel |-> NoWeight, imag_kernel |-> NoWeight, bias |-> NoWeight]

Backends == {"tensorflow", "jax", "torch"}

\* `backend` as imported at module level: the function object itself, which
\* build compares with a string without calling it
BackendFunction == "<function backend>"

(***************************************************************************)
(* __init__                                                                *)
(***************************************************************************)
\* keras' standardize_tuple(modes, rank, name="modes"): anything but
\* strictly positive entries is a ValueError
standardize_tuple_ok(modes) == \A k \in 1..Len(modes) : modes[k] > 0

\* `not all(self.modes)`
ModesContainZero(modes) == \E k \in 1..Len(modes) : modes[k] = 0

\* __init__ without the data_format test
InitErrorAnyLayout(filters, modes, data_format) ==
    IF ~standardize_tuple_ok(modes)
    THEN [type |-> "ValueError", msg |-> "modes"]
    ELSE IF filters <= 0
    THEN [type |-> "ValueError", msg |-> "Invalid value for argument filters"]
    ELSE IF ModesContainZero(modes)
    THEN [type |-> "ValueError", msg |-> "The argument modes cannot contain 0"]
    ELSE NoError

\* the exception __init__ raises for these arguments, NoError if none
InitError(filters, modes, data_format) ==
    IF ~standardize_tuple_ok(modes)
    THEN [type |-> "ValueError", msg |-> "modes"]
    ELSE IF filters <= 0
    THEN [type |-> "ValueError", msg |-> "Invalid value for argument filters"]
    ELSE IF ModesContainZero(modes)
    THEN [type |-> "ValueError", msg |-> "The argument modes cannot contain 0"]
    ELSE IF data_format = "channels_first"
    THEN [type |-> "NotImplementedError",
          msg |-> "Data format channels_first is currently not supported."]
    ELSE NoError

NewLayer(rank, filters, modes, data_format, use_bias) ==
    [NoLayer EXCEPT !.constructed = TRUE, !.rank = rank, !.filters = filters,
                    !.modes = modes, !.data_format = data_format,
                    !.use_bias = use_bias]

\* what the last call left behind: the tensors its backward closure holds and
\* the coefficients it handed to the inverse transform
NoFwd ==
    [done |-> FALSE, calls |-> 0, in_shape |-> <<>>,
     x_hat_real |-> NoTensor, x_hat_imag |-> NoTensor,
     x_hat_real_truncated |-> NoTensor, x_hat_imag_truncated |-> NoTensor,
     y_hat_real_truncated |-> NoTensor, y_hat_imag_truncated |-> NoTensor,
     y_hat_real |-> NoTensor, y_hat_imag |-> NoTensor, y_shape |-> <<>>]

NoArgs ==
    [rank |-> 0, filters |-> 0, modes |-> <<>>, data_format |-> "",
     use_bias |-> FALSE]

\* the configuration dictionary the caller holds
NoConfig == [keys |-> {}, args |-> NoArgs]

\* the arguments and the result of the last operation
NoRet ==
    [init_args |-> NoArgs, build_shape |-> <<>>, was_built |-> FALSE,
     cos_arg |-> <<>>, cos_arg_after |-> <<>>, cos_out |-> <<>>,
     dy_shape |-> <<>>,
     dy_hat_real_truncated |-> NoTensor, dy_hat_imag_truncated |-> NoTensor,
     returned |-> FALSE, dx_hat_real |-> NoTensor, dx_hat_imag |-> NoTensor,
     dx_shape |-> <<>>, grads |-> <<>>,
     shift_in |-> NoTensor, shift_out |-> NoTensor,
     restored |-> NoLayer]

\* a behaviour follows the one instance its first step constructs
Construct(rank, filters, modes, data_format, use_bias) ==
    /\ last_op = ""
    /\ LET e == InitError(filters, modes, data_format) IN
        /\ err' = e
        /\ layer' = IF e = NoError
                    THEN NewLayer(rank, filters, modes, data_format, use_bias)
                    ELSE NoLayer
    /\ ret' = [NoRet EXCEPT !.init_args =
                    [rank |-> rank, filters |-> filters, modes |-> modes,
                     data_format |-> data_format, use_bias |-> use_bias]]
    /\ last_op' = "construct"
    /\ UNCHANGED <<backend_name, n_weights, n_builds, fwd, config>>

(***************************************************************************)
(* build                                                                   *)
(***************************************************************************)
\* axes = list(range(len(input_shape)))
Axes(n) == [k \in 1..n |-> k - 1]

\* transpose_axes.insert(1, transpose_axes.pop(-1))
TransposeAxes(n) ==
    [k \in 1..n |-> IF k = 1 THEN 0 ELSE IF k = 2 THEN n - 1 ELSE k - 2]

\* the forward permutation taken for its own inverse
InverseAsForward(n) ==
    [k \in 1..n |-> IF k = 1 THEN 0 ELSE IF k = 2 THEN n - 1 ELSE k - 2]

\* inverse_transpose_axes.append(inverse_transpose_axes.pop(1))
InverseTransposeAxes(n) ==
    [k \in 1..n |-> IF k = 1 THEN 0 ELSE IF k = n THEN 1 ELSE k]

\* a padding plan that gives the last axis its full extent
PadWidthFullExtent(modes, input_shape, data_format) ==
    <<  <<0, 0>>, <<0, 0>> >> \o
    [i \in 1..Len(modes) |-> <<0, input_shape[1 + i] - modes[i]>>]

\* zip(self.modes, input_shape[1:]) under channels_last, [2:] otherwise
PadWidth(modes, input_shape, data_format) ==
    LET off == IF data_format = "channels_last" THEN 1 ELSE 2
        n == IF Len(modes) < Len(input_shape) - off
             THEN Len(modes) ELSE Len(input_shape) - off
    IN  <<  <<0, 0>>, <<0, 0>> >> \o
        [i \in 1..n |->
            LET m == modes[i]
                sz == input_shape[off + i]
            IN  <<0, IF i - 1 = Len(modes) - 1
                     THEN (sz \div 2) + 1 - m ELSE sz - m>>]

\* list(filter(lambda x: x < (0, 0), self.pad_width))
TooManyModes(pad_width) ==
    \E k \in 1..Len(pad_width) : TupleLess(pad_width[k], <<0, 0>>)

KernelShape(input_channel, filters, modes) == <<input_channel, filters>> \o modes

\* (self.filters,) + (1,) * self.rank
BiasShape(filters, rank) == <<filters>> \o [k \in 1..rank |-> 1]

\* feature_axes: axes without the batch axis and without the channel axis
FeatureDims(input_shape) ==
    [k \in 1..(Len(input_shape) - 2) |-> input_shape[k + 1]]

\* slice(None) is <<FALSE, 0>>, slice(None, m) is <<TRUE, m>>
ModeTruncationSlice(modes) ==
    <<  <<FALSE, 0>>, <<FALSE, 0>> >> \o [k \in 1..Len(modes) |-> <<TRUE, modes[k]>>]

\* "".join([d for _, d in zip(self.modes, ["X", "Y", "Z"])])
EinsumDim(modes) ==
    IF Len(modes) = 1 THEN "X" ELSE IF Len(modes) = 2 THEN "XY" ELSE "XYZ"

EinsumOpForward(modes) ==
    "bi" \o EinsumDim(modes) \o ",io" \o EinsumDim(modes) \o "->bo" \o EinsumDim(modes)

\* `if backend == "tensorflow":` compares the imported function, not its result
BackpropOpsDeclared == BackendFunction = "tensorflow"

BackpropAttrs ==
    {"einsum_op_backprop_weights", "einsum_op_backprop_x", "einsum_op_backprop_bias"}

\* self.add_weight(...): a fresh variable holding the initializer's values
AddWeight(nw, name, shape, init) ==
    [id |-> nw + 1, name |-> name, shape |-> shape, val |-> init.val]

\* build without the test of self.built in its first lines
BuildLayerAgain(l, input_shape, nw, wr, wi, b) ==
    LET n == Len(input_shape)
        input_channel == input_shape[n]
        pw == PadWidth(l.modes, input_shape, l.data_format)
        l1 == [l EXCEPT !.transpose_axes = TransposeAxes(n),
                        !.inverse_transpose_axes = InverseTransposeAxes(n),
                        !.pad_width = pw,
                        !.attrs = @ \cup {"transpose_op", "inverse_transpose_op",
                                          "pad_width"}]
    IN  IF TooManyModes(pw) THEN l1
        ELSE [l1 EXCEPT
                !.input_channel = input_channel,
                !.real_kernel = AddWeight(nw, "real_kernel",
                                    KernelShape(input_channel, l.filters, l.modes), wr),
                !.imag_kernel = AddWeight(nw + 1, "imag_kernel",
                                    KernelShape(input_channel, l.filters, l.modes), wi),
                !.bias = IF l.use_bias
                         THEN AddWeight(nw + 2, "bias",
                                        BiasShape(l.filters, l.rank), b)
                         ELSE NoWeight,
                !.feature_dims = FeatureDims(input_shape),
                !.mode_truncation_slice = ModeTruncationSlice(l.modes),
                !.einsum_op_forward = EinsumOpForward(l.modes),
                !.attrs = @ \cup {"input_spec", "_real_kernel", "_imag_kernel",
                                  "bias", "feature_dims", "mode_truncation_slice",
                                  "einsum_op_forward"}
                            \cup (IF BackpropOpsDeclared THEN BackpropAttrs ELSE {}),
                !.built = TRUE]

\* the layer after build(input_shape) has run to its raise or to its end;
\* wr, wi, b are what the initializers return
BuildLayer(l, input_shape, nw, wr, wi, b) ==
    LET n == Len(input_shape)
        input_channel == input_shape[n]
        pw == PadWidth(l.modes, input_shape, l.data_format)
        l1 == [l EXCEPT !.transpose_axes = TransposeAxes(n),
                        !.inverse_transpose_axes = InverseTransposeAxes(n),
                        !.pad_width = pw,
                        !.attrs = @ \cup {"transpose_op", "inverse_transpose_op",
                                          "pad_width"}]
    IN  IF l.built THEN l
        ELSE IF TooManyModes(pw) THEN l1
        ELSE [l1 EXCEPT
                !.input_channel = input_channel,
                !.real_kernel = AddWeight(nw, "real_kernel",
                                    KernelShape(input_channel, l.filters, l.modes), wr),
                !.imag_kernel = AddWeight(nw + 1, "imag_kernel",
                                    KernelShape(input_channel, l.filters, l.modes), wi),
                !.bias = IF l.use_bias
                         THEN AddWeight(nw + 2, "bias",
                                        BiasShape(l.filters, l.rank), b)
                         ELSE NoWeight,
                !.feature_dims = FeatureDims(input_shape),
                !.mode_truncation_slice = ModeTruncationSlice(l.modes),
                !.einsum_op_forward = EinsumOpForward(l.modes),
                !.attrs = @ \cup {"input_spec", "_real_kernel", "_imag_kernel",
                                  "bias", "feature_dims", "mode_truncation_slice",
                                  "einsum_op_forward"}
                            \cup (IF BackpropOpsDeclared THEN BackpropAttrs ELSE {}),
                !.built = TRUE]

BuildError(l, input_shape) ==
    IF ~l.built /\ TooManyModes(PadWidth(l.modes, input_shape, l.data_format))
    THEN [type |-> "ValueError", msg |-> "Too many modes for input shape!"]
    ELSE NoError

\* the weights counted as if add_weight ran before the test of the pad widths
BuildWeightCountEager(l, input_shape, nw) ==
    IF l.built THEN nw
    ELSE IF l.use_bias THEN nw + 3 ELSE nw + 2

BuildWeightCount(l, input_shape, nw) ==
    IF l.built \/ BuildError(l, input_shape) # NoError THEN nw
    ELSE IF l.use_bias THEN nw + 3 ELSE nw + 2

Build(input_shape, wr, wi, b) ==
    /\ layer.constructed
    /\ n_builds < MaxBuilds
    /\ n_builds' = n_builds + 1
    /\ layer' = BuildLayer(layer, input_shape, n_weights, wr, wi, b)
    /\ n_weights' = BuildWeightCount(layer, input_shape, n_weights)
    /\ err' = BuildError(layer, input_shape)
    /\ ret' = [NoRet EXCEPT !.build_shape = input_shape,
                            !.was_built = layer.built]
    /\ last_op' = "build"
    /\ UNCHANGED <<backend_name, fwd, config>>

(***************************************************************************)
(* Tensor operations of keras.ops used by call.                            *)
(***************************************************************************)
\* ops.transpose(x, axes): axis k of the result is axis axes[k] of x
TransposeShape(shape, axes) == [k \in 1..Len(axes) |-> shape[axes[k] + 1]]

\* ops.roll(x, shift, axis): the element at index j moves to (j + shift) mod n
roll(t, shift, axis) ==
    [shape |-> t.shape,
     val |-> [ix \in Idx(t.shape) |->
                t.val[[ix EXCEPT ![axis + 1] = (ix[axis + 1] - shift) % t.shape[axis + 1]]]]]

\* x[slice]: slice(None) keeps the axis, slice(None, m) its first m entries
SliceShape(shape, sl) ==
    [k \in 1..Len(shape) |->
        IF k <= Len(sl) /\ sl[k][1] /\ sl[k][2] < shape[k] THEN sl[k][2] ELSE shape[k]]

GetSlice(t, sl) ==
    LET sh == SliceShape(t.shape, sl)
    IN  [shape |-> sh, val |-> [ix \in Idx(sh) |-> t.val[ix]]]

\* ops.pad(x, pad_width): constant zeros, pad_width[k] = (before, after)
PadShape(shape, pad_width) ==
    [k \in 1..Len(shape) |-> pad_width[k][1] + shape[k] + pad_width[k][2]]

pad(t, pad_width) ==
    LET sh == PadShape(t.shape, pad_width)
    IN  [shape |-> sh,
         val |-> [ix \in Idx(sh) |->
                    LET src == [k \in 1..Len(sh) |-> ix[k] - pad_width[k][1]]
                    IN  IF src \in Idx(t.shape) THEN t.val[src] ELSE 0]]

\* x + bias, the bias of shape (filters, 1, ..., 1) broadcast from the right
AddBroadcast(t, b) ==
    LET off == Len(t.shape) - Len(b.shape)
    IN  [shape |-> t.shape,
         val |-> [ix \in Idx(t.shape) |->
                    t.val[ix] +
                    b.val[[k \in 1..Len(b.shape) |->
                            IF b.shape[k] = 1 THEN 0 ELSE ix[off + k]]]]]

Minus(a, b) == [shape |-> a.shape, val |-> [ix \in Idx(a.shape) |-> a.val[ix] - b.val[ix]]]

Plus(a, b) == [shape |-> a.shape, val |-> [ix \in Idx(a.shape) |-> a.val[ix] + b.val[ix]]]

\* the mode indices of an index tuple: everything after its first two axes
ModeIdx(ix) == SubSeq(ix, 3, Len(ix))

\* ops.einsum("bi..,io..->bo..", x, w): sum over the input channels
einsum_forward(x, w) ==
    LET sh == <<x.shape[1], w.shape[2]>> \o ModeIdx(x.shape)
    IN  [shape |-> sh,
         val |-> [ix \in Idx(sh) |->
                    SumOver(0..(x.shape[2] - 1),
                        [i \in 0..(x.shape[2] - 1) |->
                            x.val[<<ix[1], i>> \o ModeIdx(ix)] *
                            w.val[<<i, ix[2]>> \o ModeIdx(ix)]])]]

\* ops.einsum("bo..,bi..->io..", dy, x): sum over the batch
einsum_backprop_weights(dy, x) ==
    LET sh == <<x.shape[2], dy.shape[2]>> \o ModeIdx(x.shape)
    IN  [shape |-> sh,
         val |-> [ix \in Idx(sh) |->
                    SumOver(0..(x.shape[1] - 1),
                        [b \in 0..(x.shape[1] - 1) |->
                            dy.val[<<b, ix[2]>> \o ModeIdx(ix)] *
                            x.val[<<b, ix[1]>> \o ModeIdx(ix)]])]]

\* ops.einsum("bo..,io..->bi..", dy, w): sum over the output channels
einsum_backprop_x(dy, w) ==
    LET sh == <<dy.shape[1], w.shape[1]>> \o ModeIdx(dy.shape)
    IN  [shape |-> sh,
         val |-> [ix \in Idx(sh) |->
                    SumOver(0..(w.shape[2] - 1),
                        [o \in 0..(w.shape[2] - 1) |->
                            dy.val[<<ix[1], o>> \o ModeIdx(ix)] *
                            w.val[<<ix[2], o>> \o ModeIdx(ix)]])]]

\* ops.einsum("bo..->o", dy): sum over everything but the output channels
einsum_backprop_bias(dy) ==
    [shape |-> <<dy.shape[2]>>,
     val |-> [ix \in Idx(<<dy.shape[2]>>) |->
                LET S == {jx \in Idx(dy.shape) : jx[2] = ix[1]}
                IN  SumOver(S, [jx \in S |-> dy.val[jx]])]]

(***************************************************************************)
(* rfft, irfft, rfft_shift                                                 *)
(***************************************************************************)
\* self.rfft_fn on a (batch, channels, *spatial) tensor: the last axis keeps
\* extent // 2 + 1 bins, every other axis its extent
RfftShape(shape) ==
    [k \in 1..Len(shape) |-> IF k = Len(shape) THEN (shape[k] \div 2) + 1 ELSE shape[k]]

\* self.irfft_fn((x_real, x_imag)): it is handed the coefficients alone, so the
\* length of the last axis is the one a half spectrum of h bins stands for by
\* default, 2 * (h - 1)
IrfftShape(shape) ==
    [k \in 1..Len(shape) |-> IF k = Len(shape) THEN 2 * (shape[k] - 1) ELSE shape[k]]

\* self.rfft(x): transpose_op, then rfft_fn
rfft_shape(l, shape) == RfftShape(TransposeShape(shape, l.transpose_axes))

\* self.irfft(inputs): irfft_fn, then inverse_transpose_op
irfft_shape(l, shape) == TransposeShape(IrfftShape(shape), l.inverse_transpose_axes)

\* zip(range(len(self.modes), shape - 1), self.modes): how many pairs it yields
ShiftPairs(ndim, modes) ==
    LET r == ndim - 1 - Len(modes)
    IN  IF r < 0 THEN 0 ELSE IF r < Len(modes) THEN r ELSE Len(modes)

\* the axis of the k-th pair
ShiftAxis(modes, k) == Len(modes) + k - 1

\* shift=-m // 2
ShiftAmount(m) == (-m) \div 2

RECURSIVE RollFrom(_, _, _)
RollFrom(t, modes, k) ==
    IF k > ShiftPairs(Len(t.shape), modes) THEN t
    ELSE RollFrom(roll(t, ShiftAmount(modes[k]), ShiftAxis(modes, k)), modes, k + 1)

rfft_shift(t, modes) == RollFrom(t, modes, 1)

\* layer.rfft_shift(inputs): it reads self.modes only
RfftShift(x) ==
    /\ layer.constructed
    /\ ret' = [NoRet EXCEPT !.shift_in = x,
                            !.shift_out = rfft_shift(x, layer.modes)]
    /\ err' = NoError
    /\ last_op' = "rfft_shift"
    /\ UNCHANGED <<backend_name, layer, n_weights, n_builds, fwd, config>>

(***************************************************************************)
(* call                                                                    *)
(***************************************************************************)
\* the imaginary part of a complex product, as a slip in the code would have it
StandardImag(xr, xi, wr, wi) ==
    Plus(einsum_forward(xr, wi), einsum_forward(xi, wr))

\* tensorflow forward
y_hat_real_truncated_tf(xr, xi, wr, wi) ==
    Minus(einsum_forward(xr, wr), einsum_forward(xi, wi))

y_hat_imag_truncated_tf(xr, xi, wr, wi) ==
    Minus(einsum_forward(xr, wr), einsum_forward(xi, wi))

\* jax forward
y_hat_real_truncated_jax(xr, xi, wr, wi) ==
    Minus(einsum_forward(xr, wr), einsum_forward(xi, wi))

y_hat_imag_truncated_jax(xr, xi, wr, wi) ==
    Minus(einsum_forward(xr, wr), einsum_forward(xi, wi))

\* ops.pad, then the bias if use_bias
PadBias(l, yt) ==
    LET padded == pad(yt, l.pad_width)
    IN  IF l.use_bias THEN AddBroadcast(padded, l.bias) ELSE padded

\* ... then rfft_shift: what irfft is handed
PadBiasShift(l, yt) == rfft_shift(PadBias(l, yt), l.modes)

ForwardTF(l, in_shape, xr, xi) ==
    LET xrt == GetSlice(rfft_shift(xr, l.modes), l.mode_truncation_slice)
        xit == GetSlice(rfft_shift(xi, l.modes), l.mode_truncation_slice)
        yrt == y_hat_real_truncated_tf(xrt, xit, l.real_kernel, l.imag_kernel)
        yit == y_hat_imag_truncated_tf(xrt, xit, l.real_kernel, l.imag_kernel)
        yr == PadBiasShift(l, yrt)
        yi == PadBiasShift(l, yit)
    IN  [done |-> TRUE, calls |-> 0, in_shape |-> in_shape,
         x_hat_real |-> xr, x_hat_imag |-> xi,
         x_hat_real_truncated |-> xrt, x_hat_imag_truncated |-> xit,
         y_hat_real_truncated |-> yrt, y_hat_imag_truncated |-> yit,
         y_hat_real |-> yr, y_hat_imag |-> yi,
         y_shape |-> irfft_shape(l, yr.shape)]

ForwardJax(l, in_shape, xr, xi) ==
    LET xrt == GetSlice(rfft_shift(xr, l.modes), l.mode_truncation_slice)
        xit == GetSlice(rfft_shift(xi, l.modes), l.mode_truncation_slice)
        yrt == y_hat_real_truncated_jax(xrt, xit, l.real_kernel, l.imag_kernel)
        yit == y_hat_imag_truncated_jax(xrt, xit, l.real_kernel, l.imag_kernel)
        yr == PadBiasShift(l, yrt)
        yi == PadBiasShift(l, yit)
    IN  [done |-> TRUE, calls |-> 0, in_shape |-> in_shape,
         x_hat_real |-> xr, x_hat_imag |-> xi,
         x_hat_real_truncated |-> xrt, x_hat_imag_truncated |-> xit,
         y_hat_real_truncated |-> yrt, y_hat_imag_truncated |-> yit,
         y_hat_real |-> yr, y_hat_imag |-> yi,
         y_shape |-> irfft_shape(l, yr.shape)]

\* the input shapes that match the built configuration
CallShape(l, batch) == <<batch>> \o l.feature_dims \o <<l.input_channel>>

\* call(inputs): xr, xi are the coefficients self.rfft(inputs) returns
Call(in_shape, xr, xi) ==
    /\ layer.built
    /\ xr.shape = rfft_shape(layer, in_shape)
    /\ xi.shape = xr.shape
    /\ fwd.calls < MaxCalls
    /\ IF backend_name = "tensorflow"
       THEN /\ fwd' = [ForwardTF(layer, in_shape, xr, xi) EXCEPT !.calls = fwd.calls + 1]
            /\ err' = NoError
       ELSE IF backend_name = "jax"
       THEN /\ fwd' = [ForwardJax(layer, in_shape, xr, xi) EXCEPT !.calls = fwd.calls + 1]
            /\ err' = NoError
       ELSE /\ fwd' = [fwd EXCEPT !.calls = fwd.calls + 1]
            /\ err' = [type |-> "NotImplementedError",
                       msg |-> "The call method is only implemented for keras backends tensorflow and jax"]
    /\ ret' = NoRet
    /\ last_op' = "call"
    /\ UNCHANGED <<backend_name, layer, n_weights, n_builds, config>>

(***************************************************************************)
(* backprop, the gradient function the tensorflow forward returns          *)
(***************************************************************************)
dw_real(dyr, dyi, xr, xi) ==
    Plus(einsum_backprop_weights(dyr, xr), einsum_backprop_weights(dyi, xi))

dw_imag(dyr, dyi, xr, xi) ==
    Minus(einsum_backprop_weights(dyr, xi), einsum_backprop_weights(dyi, xr))

db(dyr, dyi) == einsum_backprop_bias(Plus(dyr, dyi))

dx_hat_real_truncated(dyr, dyi, wr, wi) ==
    Plus(einsum_backprop_x(dyr, wr), einsum_backprop_x(dyi, wi))

dx_hat_imag_truncated(dyr, dyi, wr, wi) ==
    Minus(einsum_backprop_x(dyi, wr), einsum_backprop_x(dyr, wi))

\* `return dx, [db, dw_real, dw_imag]` or `return dx, [dw_real, dw_imag]`
GradList(l, dyr, dyi, xr, xi) ==
    (IF l.use_bias THEN << [name |-> "db", grad |-> db(dyr, dyi)] >> ELSE << >>) \o
    << [name |-> "dw_real", grad |-> dw_real(dyr, dyi, xr, xi)],
       [name |-> "dw_imag", grad |-> dw_imag(dyr, dyi, xr, xi)] >>

\* the attributes backprop reads from the layer
BackpropReads(l) ==
    {"einsum_op_backprop_weights", "einsum_op_backprop_x"} \cup
    (IF l.use_bias THEN {"einsum_op_backprop_bias"} ELSE {})

BackpropResult(l, f, dy_shape, dyr, dyi) ==
    LET base == [NoRet EXCEPT !.dy_shape = dy_shape]
    IN  IF ~(BackpropReads(l) \subseteq l.attrs) THEN base
        ELSE LET dyrt == GetSlice(rfft_shift(dyr, l.modes), l.mode_truncation_slice)
                 dyit == GetSlice(rfft_shift(dyi, l.modes), l.mode_truncation_slice)
             dxr == rfft_shift(pad(dx_hat_real_truncated(dyrt, dyit,
                                           l.real_kernel, l.imag_kernel),
                                       l.pad_width), l.modes)
                 dxi == rfft_shift(pad(dx_hat_imag_truncated(dyrt, dyit,
                                           l.real_kernel, l.imag_kernel),
                                       l.pad_width), l.modes)
             IN  [base EXCEPT
                    !.returned = TRUE,
                    !.dx_hat_real = dxr, !.dx_hat_imag = dxi,
                    !.dx_shape = irfft_shape(l, dxr.shape),
                    !.grads = GradList(l, dyrt, dyit, f.x_hat_real_truncated,
                                       f.x_hat_imag_truncated)]

BackpropError(l) ==
    IF BackpropReads(l) \subseteq l.attrs THEN NoError
    ELSE [type |-> "AttributeError", msg |-> "einsum_op_backprop_weights"]

\* backprop(dy): dyr, dyi are the coefficients self.rfft(dy) returns
Backprop(dyr, dyi) ==
    /\ fwd.done
    /\ backend_name = "tensorflow"
    /\ ret' = BackpropResult(layer, fwd, fwd.y_shape, dyr, dyi)
    /\ err' = BackpropError(layer)
    /\ last_op' = "backprop"
    /\ UNCHANGED <<backend_name, layer, n_weights, n_builds, fwd, config>>

(***************************************************************************)
(* compute_output_shape                                                    *)
(***************************************************************************)
\* the shape with axis 1 taken for the channel axis
compute_output_shape_axis1(l, input_shape) ==
    [input_shape EXCEPT ![2] = l.filters]

\* input_shape[channel_axis] = self.filters on the copy list(input_shape)
compute_output_shape(l, input_shape) ==
    LET channel_axis == IF l.data_format = "channels_last"
                        THEN Len(input_shape) ELSE 2
    IN  [input_shape EXCEPT ![channel_axis] = l.filters]

\* the caller's shape after the call: list(input_shape) copied it
ShapeAfterCompute(l, input_shape) == input_shape

ComputeOutputShape(input_shape) ==
    /\ layer.constructed
    /\ ret' = [NoRet EXCEPT !.cos_arg = input_shape,
                            !.cos_arg_after = ShapeAfterCompute(layer, input_shape),
                            !.cos_out = compute_output_shape(layer, input_shape)]
    /\ err' = NoError
    /\ last_op' = "compute_output_shape"
    /\ UNCHANGED <<backend_name, layer, n_weights, n_builds, fwd, config>>

(***************************************************************************)
(* get_config, from_config                                                 *)
(***************************************************************************)
\* super().get_config()
BaseConfigKeys == {"name", "trainable", "dtype"}

\* the keys config.update adds in get_config
ConfigKeys ==
    {"filters", "modes", "data_format", "use_bias",
     "kernel_initializer", "bias_initializer",
     "kernel_constraint", "bias_constraint",
     "kernel_regularizer", "bias_regularizer"}

get_config(l) ==
    [keys |-> BaseConfigKeys \cup ConfigKeys,
     args |-> [rank |-> 0, filters |-> l.filters, modes |-> l.modes,
               data_format |-> l.data_format, use_bias |-> l.use_bias]]

GetConfig ==
    /\ layer.constructed
    /\ config' = get_config(layer)
    /\ ret' = NoRet
    /\ err' = NoError
    /\ last_op' = "get_config"
    /\ UNCHANGED <<backend_name, layer, n_weights, n_builds, fwd>>

\* the keys from_config pops, in its order
PoppedKeys ==
    <<"kernel_initialzer", "bias_initialzer", "kernel_constraint",
      "bias_constraint", "kernel_regularizer", "bias_regularizer">>

\* the keys config.update adds in from_config
UpdatedKeys ==
    {"kernel_initializer", "bias_initializer", "kernel_constraint",
     "bias_constraint", "kernel_regularizer", "bias_regularizer"}

\* the parameters __init__ takes by name
InitParams ==
    {"rank", "filters", "modes", "data_format", "use_bias",
     "kernel_initializer", "bias_initializer", "kernel_constraint",
     "bias_constraint", "kernel_regularizer", "bias_regularizer", "name",
     "trainable", "dtype"}

\* the parameters of __init__ that have no default
RequiredParams == {"rank", "filters", "modes"}

\* the position in PoppedKeys of the first key the dictionary lacks, 0 if none
FirstMissing(keys) ==
    IF \A k \in 1..Len(PoppedKeys) : PoppedKeys[k] \in keys THEN 0
    ELSE CHOOSE k \in 1..Len(PoppedKeys) :
            /\ PoppedKeys[k] \notin keys
            /\ \A j \in 1..(k - 1) : PoppedKeys[j] \in keys

\* the dictionary as from_config leaves it: config.pop removes until a key is
\* missing, config.update runs only after every pop
ConfigAfterFrom(c) ==
    LET k == FirstMissing(c.keys)
    IN  IF k = 0
        THEN [c EXCEPT !.keys =
                (@ \ {PoppedKeys[j] : j \in 1..Len(PoppedKeys)}) \cup UpdatedKeys]
        ELSE [c EXCEPT !.keys = @ \ {PoppedKeys[j] : j \in 1..(k - 1)}]

FromConfigError(c) ==
    LET k == FirstMissing(c.keys)
        after == ConfigAfterFrom(c)
    IN  IF k # 0 THEN [type |-> "KeyError", msg |-> PoppedKeys[k]]
        ELSE IF ~(after.keys \subseteq InitParams)
        THEN [type |-> "TypeError", msg |-> "unexpected keyword argument"]
        ELSE IF ~(RequiredParams \subseteq after.keys)
        THEN [type |-> "TypeError", msg |-> "missing required argument"]
        ELSE InitError(c.args.filters, c.args.modes, c.args.data_format)

\* cls(**config)
from_config(c) ==
    IF FromConfigError(c) # NoError THEN NoLayer
    ELSE NewLayer(c.args.rank, c.args.filters, c.args.modes,
                  c.args.data_format, c.args.use_bias)

FromConfig ==
    /\ config # NoConfig
    /\ ret' = [NoRet EXCEPT !.restored = from_config(config)]
    /\ err' = FromConfigError(config)
    /\ config' = ConfigAfterFrom(config)
    /\ last_op' = "from_config"
    /\ UNCHANGED <<backend_name, layer, n_weights, n_builds, fwd>>

(***************************************************************************)
(* The inputs and the two specifications.                                  *)
(***************************************************************************)
Ranks == 1..MaxRank

DataFormats == {"channels_last", "channels_first"}

ModeTuples(rank) == [1..rank -> (-1)..MaxMode]

FilterCounts == (-1)..MaxFilters

\* (batch, *spatial, channels) with every spatial extent in lo..MaxExtent
InputShapes(rank, lo) ==
    {<<b>> \o sp \o <<c>> :
        b \in 1..MaxBatch, sp \in [1..rank -> lo..MaxExtent], c \in 1..MaxChannels}

SpecShapes(rank) == InputShapes(rank, MinExtent)

\* the shapes that keep the kernels and the coefficient tensors of this
\* layer within MixMaxElems elements
MixShapes(rank) ==
    {sh \in InputShapes(rank, 1) :
        LET xs == RfftShape(TransposeShape(sh, TransposeAxes(Len(sh))))
        IN  /\ Prod(xs) <= MixMaxElems
            /\ Prod(<<xs[1], layer.filters>> \o ModeIdx(xs)) <= MixMaxElems
            /\ Prod(KernelShape(sh[Len(sh)], layer.filters, layer.modes)) <= MixMaxElems}

SpecVals == {0}

MixVals == {0, 1}

Init ==
    /\ backend_name \in Backends
    /\ layer = NoLayer
    /\ n_weights = 0
    /\ n_builds = 0
    /\ fwd = NoFwd
    /\ config = NoConfig
    /\ ret = NoRet
    /\ err = NoError
    /\ last_op = ""

ConstructStep ==
    \E rank \in Ranks, filters \in FilterCounts, data_format \in DataFormats,
       use_bias \in BOOLEAN :
        \E modes \in ModeTuples(rank) :
            Construct(rank, filters, modes, data_format, use_bias)

\* the initializers are drawn only when this build allocates the weights
BuildStep(shapes, V) ==
    /\ layer.constructed
    /\ \E sh \in shapes :
        IF layer.built \/ BuildError(layer, sh) # NoError
        THEN Build(sh, NoTensor, NoTensor, NoTensor)
        ELSE \E wr, wi \in Tensors(KernelShape(sh[Len(sh)], layer.filters, layer.modes), V),
                b \in (IF layer.use_bias
                       THEN Tensors(BiasShape(layer.filters, layer.rank), V)
                       ELSE {NoTensor}) :
                Build(sh, wr, wi, b)

CallStep(V) ==
    /\ layer.built
    /\ \E batch \in 1..MaxBatch :
        \E xr, xi \in Tensors(rfft_shape(layer, CallShape(layer, batch)), V) :
            Call(CallShape(layer, batch), xr, xi)

\* the coefficients of dy are drawn only when backprop gets to use them
BackpropStep(V) ==
    /\ fwd.done
    /\ IF BackpropError(layer) # NoError
       THEN Backprop(NoTensor, NoTensor)
       ELSE \E dyr, dyi \in Tensors(rfft_shape(layer, fwd.y_shape), V) :
                Backprop(dyr, dyi)

ComputeOutputShapeStep ==
    /\ layer.constructed
    /\ \E sh \in SpecShapes(layer.rank) : ComputeOutputShape(sh)

\* coefficient tensors in the layout (batch, channels, *transformed axes)
ShiftShapes(rank) ==
    {<<b, c>> \o sp :
        b \in 1..MaxBatch, c \in 1..MaxChannels, sp \in [1..rank -> MinExtent..MaxExtent]}

\* the tensor that holds at every index the index itself
Labelled(shape) == [shape |-> shape, val |-> [ix \in Idx(shape) |-> ix]]

\* rfft_shift on a fresh tensor, or on what the last rfft_shift returned
RfftShiftStep ==
    /\ layer.constructed
    /\ \/ \E sh \in ShiftShapes(layer.rank) : RfftShift(Labelled(sh))
       \/ (last_op = "rfft_shift" /\ RfftShift(ret.shift_out))

\* the layer from construction to the backward pass
Next ==
    \/ ConstructStep
    \/ BuildStep(SpecShapes(layer.rank), SpecVals)
    \/ CallStep(SpecVals)
    \/ BackpropStep(SpecVals)

Spec == Init /\ [][Next]_vars

\* the operations that need no tensor: shapes and configuration, on an
\* instance that is built at most once
NextConfig ==
    \/ ConstructStep
    \/ (n_builds = 0 /\ BuildStep(SpecShapes(layer.rank), SpecVals))
    \/ ComputeOutputShapeStep
    \/ GetConfig
    \/ FromConfig

SpecConfig == Init /\ [][NextConfig]_vars

\* the arithmetic of call and backprop on small tensors; build runs as
\* Layer.__call__ runs it, on a layer that is not built yet
NextMix ==
    \/ ConstructStep
    \/ (~layer.built /\ BuildStep(MixShapes(layer.rank), MixVals))
    \/ CallStep(MixVals)
    \/ BackpropStep(MixVals)

SpecMix == Init /\ [][NextMix]_vars

\* rfft_shift alone, on tensors whose elements tell where they came from
NextShift ==
    \/ ConstructStep
    \/ RfftShiftStep

SpecShift == Init /\ [][NextShift]_vars

(***************************************************************************)
(* C1: in call, on both backends, the real and the imaginary output of the *)
(* mixing step are the same expression contract(xr, Wr) - contract(xi, Wi) *)
(* of the truncated coefficients and the kernels, the bias is added to     *)
(* both alike, and so the real and the imaginary coefficient tensors       *)
(* handed to the inverse transform are equal element by element.           *)
(***************************************************************************)
C1_Contract(f, l) ==
    Minus(einsum_forward(f.x_hat_real_truncated, l.real_kernel),
          einsum_forward(f.x_hat_imag_truncated, l.imag_kernel))

C1_RealImagIdentical ==
    fwd.done =>
        /\ fwd.y_hat_real_truncated = C1_Contract(fwd, layer)
        /\ fwd.y_hat_imag_truncated = C1_Contract(fwd, layer)
        /\ fwd.y_hat_real = fwd.y_hat_imag
        /\ \A ix \in Idx(fwd.y_hat_real.shape) :
              fwd.y_hat_real.val[ix] - pad(fwd.y_hat_real_truncated, layer.pad_width).val[ix]
            = fwd.y_hat_imag.val[ix] - pad(fwd.y_hat_imag_truncated, layer.pad_width).val[ix]

\* a call with a bias that is not zero, on coefficients and kernels for which
\* the imaginary part of a complex product would differ from what was computed
C1_Witness ==
    /\ fwd.done
    /\ layer.use_bias
    /\ \E ix \in Idx(layer.bias.shape) : layer.bias.val[ix] # 0
    /\ fwd.x_hat_real_truncated # fwd.x_hat_imag_truncated
    /\ StandardImag(fwd.x_hat_real_truncated, fwd.x_hat_imag_truncated,
                    layer.real_kernel, layer.imag_kernel) # fwd.y_hat_imag_truncated
    /\ \E ix \in Idx(fwd.y_hat_imag_truncated.shape) : fwd.y_hat_imag_truncated.val[ix] # 0

(***************************************************************************)
(* C2: for a built layer of rank 1, 2 or 3 and every input of shape        *)
(* (batch, *spatial, channels) whose spatial extents, even or odd, admit   *)
(* the modes, call returns a tensor of shape (batch, *spatial, filters),   *)
(* the shape compute_output_shape gives for the input shape.               *)
(***************************************************************************)
C2_CallShapeIsOutputShape ==
    fwd.done => fwd.y_shape = compute_output_shape(layer, fwd.in_shape)

(***************************************************************************)
(* C3: in the mode domain, for all truncated coefficients, kernels and     *)
(* upstream gradients (dyr, dyi), the dw_real and dw_imag of backprop are  *)
(* the exact derivatives with respect to the real and the imaginary kernel *)
(* of sum(dyr * yr + dyi * yi), where (yr, yi) is what the forward mixing  *)
(* step computes.  The mixing step is linear in each kernel, so the        *)
(* derivative with respect to one kernel entry is the change of the sum    *)
(* when that entry grows by one.                                           *)
(***************************************************************************)
C3_Loss(dyr, dyi, xr, xi, wr, wi) ==
    LET yr == y_hat_real_truncated_tf(xr, xi, wr, wi)
        yi == y_hat_imag_truncated_tf(xr, xi, wr, wi)
        S == Idx(yr.shape)
    IN  SumOver(S, [ix \in S |-> dyr.val[ix] * yr.val[ix] + dyi.val[ix] * yi.val[ix]])

C3_Bump(w, jx) == [w EXCEPT !.val = [ix \in Idx(w.shape) |->
                                        IF ix = jx THEN w.val[ix] + 1 ELSE w.val[ix]]]

C3_ExactDwReal(dyr, dyi, xr, xi, wr, wi) ==
    [shape |-> wr.shape,
     val |-> [jx \in Idx(wr.shape) |->
                C3_Loss(dyr, dyi, xr, xi, C3_Bump(wr, jx), wi)
                - C3_Loss(dyr, dyi, xr, xi, wr, wi)]]

C3_ExactDwImag(dyr, dyi, xr, xi, wr, wi) ==
    [shape |-> wi.shape,
     val |-> [jx \in Idx(wi.shape) |->
                C3_Loss(dyr, dyi, xr, xi, wr, C3_Bump(wi, jx))
                - C3_Loss(dyr, dyi, xr, xi, wr, wi)]]

C3_ManualGradientIsExact ==
    (fwd.done /\ backend_name = "tensorflow") =>
        \A dyr, dyi \in Tensors(fwd.y_hat_real_truncated.shape, MixVals) :
            LET xr == fwd.x_hat_real_truncated
                xi == fwd.x_hat_imag_truncated
            IN  /\ dw_real(dyr, dyi, xr, xi)
                    = C3_ExactDwReal(dyr, dyi, xr, xi, layer.real_kernel, layer.imag_kernel)
                /\ dw_imag(dyr, dyi, xr, xi)
                    = C3_ExactDwImag(dyr, dyi, xr, xi, layer.real_kernel, layer.imag_kernel)

(***************************************************************************)
(* C4: with as many filters as input channels, the real kernel the         *)
(* identity over the channels at every mode, the imaginary kernel zero, no *)
(* bias or a zero bias, and the modes the full transformed extents, the    *)
(* coefficients handed to the inverse transform are, at every bin and      *)
(* channel, the coefficients the forward transform produced.               *)
(***************************************************************************)
C4_IdentityLayer(l) ==
    /\ l.built
    /\ l.input_channel = l.filters
    /\ \A ix \in Idx(l.real_kernel.shape) :
        /\ l.real_kernel.val[ix] = (IF ix[1] = ix[2] THEN 1 ELSE 0)
        /\ l.imag_kernel.val[ix] = 0
    /\ l.use_bias => \A ix \in Idx(l.bias.shape) : l.bias.val[ix] = 0
    /\ \A k \in 1..Len(l.pad_width) : l.pad_width[k] = <<0, 0>>

C4_IdentityRoundTrip ==
    (fwd.done /\ C4_IdentityLayer(layer)) =>
        /\ fwd.y_hat_real = fwd.x_hat_real
        /\ fwd.y_hat_imag = fwd.x_hat_imag

(***************************************************************************)
(* C5: for a validly constructed layer of rank r, build on the input shape *)
(* (batch, s_1..s_r, channels) raises the too-many-modes error if and only *)
(* if modes[i] > s_i for some non-last spatial axis i or                   *)
(* modes[r] > s_r // 2 + 1 for the last one; otherwise build succeeds and  *)
(* the padding plan is (0, 0) for the batch and the channel axis,          *)
(* (0, s_i - modes[i]) for the non-last spatial axes and                   *)
(* (0, s_r // 2 + 1 - modes[r]) for the last, every amount non-negative.   *)
(***************************************************************************)
C5_TooManyModesError == [type |-> "ValueError", msg |-> "Too many modes for input shape!"]

C5_Exceeds(modes, s) ==
    LET r == Len(modes)
    IN  \/ \E i \in 1..(r - 1) : modes[i] > s[i + 1]
        \/ modes[r] > (s[r + 1] \div 2) + 1

C5_Plan(modes, s) ==
    LET r == Len(modes)
    IN  [k \in 1..(r + 2) |->
            IF k <= 2 THEN <<0, 0>>
            ELSE IF k = r + 2 THEN <<0, (s[r + 1] \div 2) + 1 - modes[r]>>
            ELSE <<0, s[k - 1] - modes[k - 2]>>]

C5_BuildRaisesIffTooManyModes ==
    (last_op = "build" /\ ~ret.was_built) =>
        IF C5_Exceeds(layer.modes, ret.build_shape)
        THEN err = C5_TooManyModesError /\ ~layer.built
        ELSE /\ err = NoError
             /\ layer.built
             /\ layer.pad_width = C5_Plan(layer.modes, ret.build_shape)
             /\ \A k \in 1..Len(layer.pad_width) :
                    layer.pad_width[k][1] >= 0 /\ layer.pad_width[k][2] >= 0

\* a build that fails although no mode exceeds the extent of its axis
C5_Witness ==
    /\ last_op = "build"
    /\ ~ret.was_built
    /\ err = C5_TooManyModesError
    /\ layer.rank >= 2
    /\ \A i \in 1..layer.rank : layer.modes[i] <= ret.build_shape[i + 1]

(***************************************************************************)
(* C6: construction validates the hyperparameters before any               *)
(* shape-dependent state exists: it raises invalid-argument when           *)
(* filters <= 0, invalid-argument when an entry of modes is 0, and         *)
(* unsupported-feature when the data layout is channels-first (a           *)
(* channels-first construction whose filters and modes are valid raises    *)
(* exactly that); so no channels-first layer ever reaches build or call,   *)
(* and every layer that reaches build has filters > 0, no zero mode and    *)
(* the channels-last layout.                                               *)
(***************************************************************************)
C6_ConstructionValidates ==
    /\ last_op = "construct" =>
        LET a == ret.init_args
            zero == \E k \in 1..Len(a.modes) : a.modes[k] = 0
        IN  /\ a.filters <= 0 => err.type = "ValueError"
            /\ zero => err.type = "ValueError"
            /\ a.data_format = "channels_first" =>
                    err.type \in {"ValueError", "NotImplementedError"}
            /\ (a.data_format = "channels_first" /\ a.filters > 0
                    /\ \A k \in 1..Len(a.modes) : a.modes[k] > 0) =>
                    err.type = "NotImplementedError"
            /\ err # NoError => layer = NoLayer
            /\ layer.attrs = {} /\ ~layer.built /\ n_weights = 0
    /\ last_op \in {"build", "call", "backprop"} =>
        /\ layer.constructed
        /\ layer.data_format = "channels_last"
        /\ layer.filters > 0
        /\ \A k \in 1..Len(layer.modes) : layer.modes[k] # 0

C6_Witness ==
    /\ last_op = "construct"
    /\ ret.init_args.data_format = "channels_first"
    /\ ret.init_args.filters > 0
    /\ err.type = "NotImplementedError"
    /\ layer = NoLayer

(***************************************************************************)
(* C7: build is idempotent: once a build has succeeded, every further      *)
(* build on the same instance, with the same or with another input shape,  *)
(* is a no-op: the real kernel, the imaginary kernel and the bias stay the *)
(* same variables, the padding plan, the truncation slice and the built    *)
(* flag stay as they are, and no weight is allocated.                      *)
(***************************************************************************)
C7_BuildIdempotent ==
    [][(layer.built /\ last_op' = "build") =>
        /\ layer'.real_kernel = layer.real_kernel
        /\ layer'.imag_kernel = layer.imag_kernel
        /\ layer'.bias = layer.bias
        /\ layer'.pad_width = layer.pad_width
        /\ layer'.mode_truncation_slice = layer.mode_truncation_slice
        /\ layer'.built
        /\ layer' = layer
        /\ n_weights' = n_weights
        /\ err' = NoError]_vars

\* a built layer built again on a shape other than the one it was built on
C7_Witness ==
    /\ last_op = "build"
    /\ ret.was_built
    /\ layer.built
    /\ FeatureDims(ret.build_shape) # layer.feature_dims
    /\ PadWidth(layer.modes, ret.build_shape, layer.data_format) # layer.pad_width

(***************************************************************************)
(* C8: compute_output_shape is a pure function: for every input shape it   *)
(* returns the shape with only the last (channel) axis replaced by filters *)
(* and every batch and spatial extent unchanged, it works on a layer that  *)
(* is not built, and it changes neither the layer nor the shape passed in. *)
(***************************************************************************)
C8_ComputeOutputShapePure ==
    [][last_op' = "compute_output_shape" =>
        LET a == ret'.cos_arg
            o == ret'.cos_out
        IN  /\ err' = NoError
            /\ Len(o) = Len(a)
            /\ \A k \in 1..(Len(a) - 1) : o[k] = a[k]
            /\ o[Len(a)] = layer.filters
            /\ ret'.cos_arg_after = a
            /\ layer' = layer
            /\ n_weights' = n_weights]_vars

\* on a layer that is not built, a shape whose extents and channel count
\* all differ from filters
C8_Witness ==
    /\ last_op = "compute_output_shape"
    /\ ~layer.built
    /\ \A k \in 2..Len(ret.cos_arg) : ret.cos_arg[k] # layer.filters
    /\ ret.cos_out # ret.cos_arg

(***************************************************************************)
(* C9: the manual backward function returns the input gradient together    *)
(* with a list of weight gradients, in the order bias, real kernel,        *)
(* imaginary kernel when use_bias is true and real kernel, imaginary       *)
(* kernel when it is false; the list has one entry per trainable weight.   *)
(***************************************************************************)
C9_BackpropReturnsGradients ==
    last_op = "backprop" =>
        /\ err = NoError
        /\ ret.returned
        /\ ret.dx_hat_real # NoTensor
        /\ [k \in 1..Len(ret.grads) |-> ret.grads[k].name]
            = (IF layer.use_bias THEN <<"db", "dw_real", "dw_imag">>
               ELSE <<"dw_real", "dw_imag">>)
        /\ Len(ret.grads) = n_weights

(***************************************************************************)
(* C10: serialization round-trips: for every constructed layer get_config  *)
(* returns a snapshot that contains every constructor parameter, and       *)
(* from_config on that snapshot succeeds and yields a layer that is not    *)
(* built and has the same rank, filters, modes, data layout and use_bias.  *)
(***************************************************************************)
C10_ConfigRoundTrip ==
    /\ last_op = "get_config" => (InitParams \subseteq config.keys)
    /\ last_op = "from_config" =>
        /\ err = NoError
        /\ ret.restored.constructed
        /\ ~ret.restored.built
        /\ ret.restored.rank = layer.rank
        /\ ret.restored.filters = layer.filters
        /\ ret.restored.modes = layer.modes
        /\ ret.restored.data_format = layer.data_format
        /\ ret.restored.use_bias = layer.use_bias

(***************************************************************************)
(* C11: an execution engine other than the two supported ones is detected  *)
(* eagerly: the unsupported-feature error is raised at construction or at  *)
(* build and never later, so a layer that was constructed and built        *)
(* without error does not raise unsupported-feature on call.               *)
(***************************************************************************)
C11_NoUnsupportedErrorOnCall ==
    (last_op = "call" /\ layer.built) => err.type # "NotImplementedError"

(***************************************************************************)
(* C16: on tensorflow, the backend that needs the manual gradient, a       *)
(* successful build sets every attribute the backward pass reads (the      *)
(* contraction specifications for the weights, the input and the bias), so *)
(* build, call, backward runs to its end and returns gradients without     *)
(* reading an attribute that was never set.                                *)
(***************************************************************************)
C16_BuildSetsBackpropState ==
    /\ (layer.built /\ backend_name = "tensorflow") =>
            (BackpropAttrs \subseteq layer.attrs)
    /\ last_op = "backprop" => (err.type # "AttributeError" /\ ret.grads # <<>>)

(***************************************************************************)
(* C17: the layout transform and its inverse that build derives from an    *)
(* input shape of rank + 2 axes are exact inverses for rank 1, 2 and 3:    *)
(* the forward permutation maps (batch, *spatial, channels) to             *)
(* (batch, channels, *spatial), the spatial axes in their order, and the   *)
(* inverse permutation applied after it, or before it, returns every axis  *)
(* to its position.                                                        *)
(***************************************************************************)
C17_TransposeInverse ==
    ("transpose_op" \in layer.attrs) =>
        LET n == layer.rank + 2
            labels == [k \in 1..n |-> k - 1]
            there == TransposeShape(labels, layer.transpose_axes)
        IN  /\ "inverse_transpose_op" \in layer.attrs
            /\ Len(layer.transpose_axes) = n
            /\ Len(layer.inverse_transpose_axes) = n
            /\ there[1] = 0
            /\ there[2] = n - 1
            /\ \A k \in 3..n : there[k] = k - 2
            /\ TransposeShape(there, layer.inverse_transpose_axes) = labels
            /\ TransposeShape(TransposeShape(labels, layer.inverse_transpose_axes),
                              layer.transpose_axes) = labels

C17_Witness ==
    /\ last_op = "build"
    /\ layer.built
    /\ layer.rank = 3
    /\ layer.transpose_axes = <<0, 4, 1, 2, 3>>
    /\ layer.inverse_transpose_axes = <<0, 2, 3, 4, 1>>

(***************************************************************************)
(* C18: every weight gradient the manual backward pass returns has the     *)
(* shape of the weight it belongs to: dw_real and dw_imag have the kernel  *)
(* shape (input channels, filters, *modes) and, when use_bias is true, the *)
(* bias gradient has the shape of the bias allocated at build.             *)
(***************************************************************************)
C18_GradientShapes ==
    /\ (fwd.done /\ backend_name = "tensorflow") =>
        \A dyr, dyi \in Tensors(fwd.y_hat_real_truncated.shape, SpecVals) :
            LET xr == fwd.x_hat_real_truncated
                xi == fwd.x_hat_imag_truncated
            IN  /\ dw_real(dyr, dyi, xr, xi).shape = layer.real_kernel.shape
                /\ dw_imag(dyr, dyi, xr, xi).shape = layer.imag_kernel.shape
                /\ layer.use_bias => db(dyr, dyi).shape = layer.bias.shape
    /\ last_op = "backprop" =>
        /\ ret.returned
        /\ \A k \in 1..Len(ret.grads) :
            ret.grads[k].grad.shape =
                (IF ret.grads[k].name = "db" THEN layer.bias.shape
                 ELSE layer.real_kernel.shape)

(***************************************************************************)
(* C19: a build that fails with the too-many-modes error leaves the layer  *)
(* not built and without any weight; a later build on the same instance    *)
(* with an input shape that admits the modes succeeds, allocates each      *)
(* weight exactly once and derives the padding plan from that later shape. *)
(***************************************************************************)
C19_BuildAfterFailedBuild ==
    /\ (last_op = "build" /\ err = C5_TooManyModesError) =>
        /\ ~layer.built
        /\ n_weights = 0
        /\ layer.real_kernel = NoWeight
        /\ layer.imag_kernel = NoWeight
        /\ layer.bias = NoWeight
    /\ (last_op = "build" /\ n_builds > 1 /\ ~ret.was_built
            /\ ~C5_Exceeds(layer.modes, ret.build_shape)) =>
        /\ err = NoError
        /\ layer.built
        /\ n_weights = (IF layer.use_bias THEN 3 ELSE 2)
        /\ layer.real_kernel.id = 1
        /\ layer.imag_kernel.id = 2
        /\ layer.bias.id = (IF layer.use_bias THEN 3 ELSE 0)
        /\ layer.real_kernel.shape
            = <<ret.build_shape[Len(ret.build_shape)], layer.filters>> \o layer.modes
        /\ layer.pad_width = C5_Plan(layer.modes, ret.build_shape)
        /\ layer.feature_dims
            = [k \in 1..layer.rank |-> ret.build_shape[k + 1]]

\* the second build of an instance whose first build failed, successful and
\* with bias
C19_Witness ==
    /\ last_op = "build"
    /\ n_builds = 2
    /\ ~ret.was_built
    /\ err = NoError
    /\ layer.built
    /\ layer.use_bias
    /\ n_weights = 3

(***************************************************************************)
(* C12: for rank 1, 2 and 3, rfft_shift on a coefficient tensor in the     *)
(* layout (batch, channels, *transformed axes) rolls every transformed     *)
(* axis except the last, each by the shift -m // 2 of the mode count m of  *)
(* that axis, and rolls no other axis: the batch axis, the channel axis    *)
(* and the last transformed axis keep every element at its index (for      *)
(* rank 1 nothing is rolled).                                              *)
(***************************************************************************)
C12_Target(ix, shape, modes) ==
    [k \in 1..Len(shape) |->
        IF k >= 3 /\ k <= Len(shape) - 1
        THEN (ix[k] + ((-modes[k - 2]) \div 2) + 2 * shape[k]) % shape[k]
        ELSE ix[k]]

C12_ShiftRollsOwnAxes ==
    last_op = "rfft_shift" =>
        /\ ret.shift_out.shape = ret.shift_in.shape
        /\ \A ix \in Idx(ret.shift_in.shape) :
            ret.shift_out.val[C12_Target(ix, ret.shift_in.shape, layer.modes)]
                = ret.shift_in.val[ix]

(***************************************************************************)
(* C13: for every non-last transformed axis of extent s and every mode     *)
(* count m with 1 <= m <= s, the original bins that rfft_shift followed by *)
(* the slice [0, m) retains form a circularly contiguous window that       *)
(* contains the zero-frequency bin (original index 0) and is symmetric     *)
(* around it: the lowest negative and positive frequencies, their counts   *)
(* differing by at most one.                                               *)
(***************************************************************************)
\* the original indices along axis k of the elements y holds at the
\* positions below m of that axis
C13_Retained(y, k, m) ==
    {y.val[ix][k] : ix \in {i \in Idx(y.shape) : i[k] < m}}

C13_Windows(s, m) ==
    {{(j + s) % s : j \in (0 - a)..(m - 1 - a)} :
        a \in {n \in 0..(m - 1) : n - (m - 1 - n) \in {-1, 0, 1}}}

C13_RetainedWindowSymmetric ==
    (last_op = "rfft_shift" /\ ret.shift_in = Labelled(ret.shift_in.shape)) =>
        \A k \in 3..(Len(ret.shift_in.shape) - 1) :
            LET s == ret.shift_in.shape[k]
                m == layer.modes[k - 2]
            IN  m <= s =>
                    C13_Retained(ret.shift_out, k, m)
                        \in C13_Windows(s, m)

(***************************************************************************)
(* C14: the shift applied during reconstruction is the exact inverse of    *)
(* the shift applied after the forward transform: for every extent s and   *)
(* every mode count m, even or odd, the forward shift followed by the      *)
(* reconstruction shift on a full-extent tensor returns every bin to its   *)
(* index along every axis.                                                 *)
(***************************************************************************)
C14_ReconstructionShiftInverts ==
    [][(last_op = "rfft_shift" /\ last_op' = "rfft_shift"
            /\ ret'.shift_in = ret.shift_out)
        => ret'.shift_out = ret.shift_in]_vars

(***************************************************************************)
(* C15: in reconstruction, for every bias value, zero or not, the          *)
(* coefficients outside the retained mode window are exactly zero in the   *)
(* real and in the imaginary tensor when they are handed to the inverse    *)
(* shift and the inverse transform: the bias is added to the truncated     *)
(* (batch, filters, *modes) coefficients only and the padded positions     *)
(* carry zeros.                                                            *)
(***************************************************************************)
C15_ZeroOutside(y, window) ==
    \A ix \in Idx(y.shape) :
        (\E k \in 3..Len(y.shape) : ix[k] >= window[k]) => y.val[ix] = 0

C15_PaddedBinsAreZero ==
    fwd.done =>
        LET yr == PadBias(layer, fwd.y_hat_real_truncated)
            yi == PadBias(layer, fwd.y_hat_imag_truncated)
        IN  /\ fwd.y_hat_real = rfft_shift(yr, layer.modes)
            /\ fwd.y_hat_imag = rfft_shift(yi, layer.modes)
            /\ C15_ZeroOutside(yr, fwd.y_hat_real_truncated.shape)
            /\ C15_ZeroOutside(yi, fwd.y_hat_imag_truncated.shape)

====
